---- MODULE Spec2Model ----
(***************************************************************************)
(* Model of the desktop chat assistant.                                     *)
(*                                                                         *)
(* The upload store:                                                       *)
(*   file_loader.py  - load_uploaded_files, save_uploaded_files,           *)
(*                     save_file_to_disk, remove_file_from_disk,           *)
(*                     add_or_replace_file_with_content(_batch)            *)
(*   ui_desktop.py   - session_state, main, handle_file_upload,            *)
(*                     new_conversation_click, delete_file_with_confirm    *)
(*                                                                         *)
(* A file record is [filename, key]; its path is UPLOAD_DIR/filename, so   *)
(* the filename stands for the path.  The upload directory is a sequence   *)
(* of [filename, content] ordered by modification time (oldest first):     *)
(* writing a file moves it to the end.                                     *)
(*                                                                         *)
(* Text extraction:                                                        *)
(*   tools.py        - extract_text, _extract_large_file, process_archive  *)
(* A byte string is its length; a call is followed one pass of the chunk   *)
(* loop at a time (SpecExtract).                                           *)
(*                                                                         *)
(* The history store:                                                      *)
(*   history_helper.py - save_history, load_history, list_histories,       *)
(*                       rename_history, delete_history, new_conversation  *)
(*   ui_desktop.py     - on_send                                           *)
(* HISTORY_DIR is a sequence of files ordered by modification time         *)
(* (SpecHistory: a session saving into it; SpecStore: calls on a           *)
(* directory that already holds histories).                                *)
(*                                                                         *)
(* Further:                                                                *)
(*   config_helper.py  - load_model_config at start-up (SpecConfig)        *)
(*   file_loader.py    - _file_hash and its memo, FileEntry (SpecHash)     *)
(*   history_helper.py - import_history (SpecImport), new_conversation as  *)
(*                       called from new_conversation_click (SpecSession)  *)
(* SpecIntact is Spec without deletions from outside the program.          *)
(***************************************************************************)
EXTENDS Integers, Sequences, FiniteSets, TLC

\* ------------------------------------------------------------------ bounds
\* Distinct byte contents a user may upload.
NumContents == 2
\* Longest batch handed to add_or_replace_file_with_content_batch.
MaxBatch == 2

FileNames == {"a.txt", "b.txt"}
Contents == 1..NumContents

\* ------------------------------------------------------- pure functions
\* hashlib.sha256(content).hexdigest(): a digest, injective on contents.
_content_hash(content) == <<"sha256", content>>

Keys == {_content_hash(c) : c \in Contents}

FileRecord(filename, key) == [filename |-> filename, key |-> key]

AllRecords == {FileRecord(n, k) : n \in FileNames, k \in Keys}

HasKey(files, key) == \E i \in 1..Len(files) : files[i].key = key

HasName(files, filename) == \E i \in 1..Len(files) : files[i].filename = filename

CountKey(files, key) == Cardinality({i \in 1..Len(files) : files[i].key = key})

CountName(files, filename) ==
    Cardinality({i \in 1..Len(files) : files[i].filename = filename})

\* [f for f in existing if f['filename'] != filename]
WithoutName(files, filename) ==
    SelectSeq(files, LAMBDA f : f.filename # filename)

\* Mutant: the content check is dropped, every add replaces by filename.
add_or_replace_no_content_check(new_file, existing, check_content) ==
    WithoutName(existing, new_file.filename) \o <<new_file>>

\* Mutant: the new record is appended without removing its namesakes.
add_or_replace_keeps_namesakes(new_file, existing, check_content) ==
    IF check_content /\ HasKey(existing, new_file.key)
    THEN existing
    ELSE existing \o <<new_file>>

add_or_replace_file_with_content(new_file, existing, check_content) ==
    IF check_content /\ HasKey(existing, new_file.key)
    THEN existing
    ELSE WithoutName(existing, new_file.filename) \o <<new_file>>

\* The for loop of add_or_replace_file_with_content_batch: content_map is
\* never shrunk when a record is replaced by filename.
RECURSIVE batch_loop(_, _, _)
batch_loop(new_files, result, content_map) ==
    IF new_files = <<>>
    THEN result
    ELSE LET new_file == Head(new_files)
         IN  IF new_file.key \in content_map
             THEN batch_loop(Tail(new_files), result, content_map)
             ELSE batch_loop(Tail(new_files),
                             WithoutName(result, new_file.filename) \o <<new_file>>,
                             content_map \cup {new_file.key})

add_or_replace_file_with_content_batch(new_files, existing) ==
    batch_loop(new_files, existing, {existing[i].key : i \in 1..Len(existing)})

\* Applying add_or_replace_file_with_content (check_content on) to each
\* member in order.
RECURSIVE one_by_one(_, _)
one_by_one(new_files, existing) ==
    IF new_files = <<>>
    THEN existing
    ELSE one_by_one(Tail(new_files),
                    add_or_replace_file_with_content(Head(new_files), existing, TRUE))

\* load_uploaded_files: one record per file of the directory, oldest first,
\* the key freshly hashed from the bytes on disk.
load_uploaded_files(dir) ==
    [i \in 1..Len(dir) |-> FileRecord(dir[i].filename, _content_hash(dir[i].content))]

\* ------------------------------------------------------------ input sets
SeqsUpTo(S, n) == UNION {[1..m -> S] : m \in 0..n}

DistinctNames(files) ==
    \A i, j \in 1..Len(files) : files[i].filename = files[j].filename => i = j

\* Record lists load_uploaded_files can return: one record per filename.
LoadableLists == {l \in SeqsUpTo(AllRecords, Cardinality(FileNames)) : DistinctNames(l)}

Batches == SeqsUpTo(AllRecords, MaxBatch) \ {<<>>}

\* Files a user may hand to the upload control: [filename, content].
Upload(filename, content) == [filename |-> filename, content |-> content]

AllUploads == {Upload(n, c) : n \in FileNames, c \in Contents}

UploadBatches == SeqsUpTo(AllUploads, MaxBatch) \ {<<>>}

\* ---------------------------------------------------------- file system
\* upload_cache/.state.json and upload_cache/.state.tmp: absent, partly
\* written, or holding a JSON list.
File(data) == [exists |-> TRUE, complete |-> TRUE, data |-> data]
NoFile == [exists |-> FALSE, complete |-> TRUE, data |-> <<>>]
PartialFile == [exists |-> TRUE, complete |-> FALSE, data |-> <<>>]

OnDisk(directory, filename) ==
    \E i \in 1..Len(directory) : directory[i].filename = filename

\* save_file_to_disk: open(UPLOAD_DIR / filename, 'wb') and write, under
\* _lock; the file becomes the most recently modified one.
save_file_to_disk(directory, filename, content) ==
    SelectSeq(directory, LAMBDA f : f.filename # filename)
        \o <<Upload(filename, content)>>

\* remove_file_from_disk: unlink when the file exists.
remove_file_from_disk(directory, filename) ==
    SelectSeq(directory, LAMBDA f : f.filename # filename)

\* The serializable list save_uploaded_files builds: filename, path and key
\* of every record (content and timestamp are dropped).
serializable(files) ==
    [i \in 1..Len(files) |-> FileRecord(files[i].filename, files[i].key)]

\* session_state["uploaded_files"].pop(idx)
pop(files, idx) == [i \in 1..(Len(files) - 1) |-> IF i < idx THEN files[i] ELSE files[i + 1]]

\* ------------------------------------------------------- text extraction
\* tools.py.  A byte string is modelled by its length, a text by where it
\* came from and how many bytes were decoded into it.
MAX_BYTES == 52428800

\* _extract_large_file's default chunk_size, 1 << 16.
chunk_size == 65536

\* The per-member limit of the zip branch of process_archive, 10 * 1024 * 1024.
MEMBER_MAX_BYTES == 10485760

\* Most members of a container.
MaxMembers == 2

Min(a, b) == IF a < b THEN a ELSE b

\* A string extract_text can return.  kind names the text:
\*   "text"           decoded content of `bytes` bytes (detail: the decoder)
\*   "truncated"      decoded chunks followed by "\n[内容过长，已截断]"
\*   "not_found"      "[错误] 文件不存在: <path>"
\*   "invalid_object" "[错误] 无效的文件对象"
\*   "read_failed"    "[读取失败] <detail>"
\*   "unpack_failed"  "[解压失败] <detail>"
\*   "empty_archive"  "[空压缩包]"
\*   "archive"        the member results of `items` joined by "\n\n"
Text(kind, detail, bytes, items) ==
    [kind |-> kind, detail |-> detail, bytes |-> bytes, items |-> items]

NoText == Text("none", "", 0, <<>>)

\* One element of process_archive's results, "【<label>】\n<body>".  mark names
\* the body:
\*   "skipped"    "[文件过大跳过: <kb>KB]"
\*   "too_large"  "[内容过大: <kb>KB]"
\*   "failed"     "[提取失败: <detail>]"
\*   "extracted"  the string extract_text returned for the member
Item(label, mark, detail, kb, text) ==
    [label |-> label, mark |-> mark, detail |-> detail, kb |-> kb, text |-> text]

ArchiveSuffixes == {".zip", ".rar", ".7z", ".tar", ".gz"}

\* Suffixes extract_text hands to a parser that raises on content it cannot
\* parse: pypdf, python-docx, pandas, json, BeautifulSoup, PIL + pytesseract.
DecoderSuffixes ==
    {".pdf", ".docx", ".csv", ".json", ".html", ".htm", ".php", ".jpg", ".jpeg", ".png"}

NoArchive == [openable |-> FALSE, members |-> <<>>]

\* The argument of extract_text.
\*   form      "path" (str or Path), "object" (has read), "noread" (has no read)
\*   exists    the path exists
\*   seekable  the object has seekable() and it returns True
\*   suffix    suffix of the file name, lower case ("" when there is none)
\*   size      number of bytes
\*   corrupt   the parser for the suffix raises on the content
\*   archive   for an archive suffix, what the container holds
Source(form, exists, seekable, suffix, size, corrupt, archive) ==
    [form |-> form, exists |-> exists, seekable |-> seekable, suffix |-> suffix,
     size |-> size, corrupt |-> corrupt, archive |-> archive]

NoSource == Source("none", FALSE, FALSE, "", 0, FALSE, NoArchive)

\* io.BytesIO(content) with the member's name.
BytesIO(m) == Source("object", TRUE, TRUE, m.suffix, m.size, m.fault = "decode", NoArchive)

\* What a call gave its caller.
\*   raised  an exception left the function, its text in err
\*   large   control is inside _extract_large_file (see LargeRead)
\*   read    archive members whose bytes were read (positions in the container)
\*   passed  archive members passed to extract_text
Outcome(raised, err, text, large, read, passed) ==
    [raised |-> raised, err |-> err, text |-> text, large |-> large,
     read |-> read, passed |-> passed]

Returned(text) == Outcome(FALSE, "", text, FALSE, {}, {})

Raised(err) == Outcome(TRUE, err, NoText, FALSE, {}, {})

NoOutcome == Outcome(FALSE, "", NoText, FALSE, {}, {})

\* _safe_decode: utf-8, then gbk, then latin1, which decodes any byte string.
_safe_decode(data) == Text("text", "plain", data, <<>>)

\* One pass of the while loop of _extract_large_file on a file of `size`
\* bytes of which `total` were read: the new total, whether the loop ends,
\* and whether the truncation marker was appended.
_extract_large_file_no_limit(size, total) ==
    LET chunk == Min(chunk_size, size - total)
    IN  IF chunk = 0
        THEN [total |-> total, stop |-> TRUE, truncated |-> FALSE]
        ELSE [total |-> total + chunk, stop |-> FALSE, truncated |-> FALSE]

_extract_large_file(size, total) ==
    LET chunk == Min(chunk_size, size - total)
    IN  IF chunk = 0
        THEN [total |-> total, stop |-> TRUE, truncated |-> FALSE]
        ELSE IF total + chunk > MAX_BYTES
        THEN [total |-> total + chunk, stop |-> TRUE, truncated |-> TRUE]
        ELSE [total |-> total + chunk, stop |-> FALSE, truncated |-> FALSE]

RECURSIVE extract_text(_)

\* The loops of process_archive over the members from position i on.  acc
\* holds results, the members read and passed on so far, and raised/err once
\* an exception left the loop.
Acc(results, read, passed, raised, err) ==
    [results |-> results, read |-> read, passed |-> passed, raised |-> raised, err |-> err]

Extracted(acc, i, m) ==
    [acc EXCEPT !.results = Append(@, Item(m.name, "extracted", "", 0,
                                           extract_text(BytesIO(m)).text)),
                !.read = @ \cup {i},
                !.passed = @ \cup {i}]

RECURSIVE zip_loop_no_size_check(_, _, _)
zip_loop_no_size_check(members, i, acc) ==
    IF i > Len(members) THEN acc
    ELSE LET m == members[i] IN
         IF m.kind # "file" THEN zip_loop_no_size_check(members, i + 1, acc)
         ELSE IF m.fault = "open" THEN [acc EXCEPT !.raised = TRUE, !.err = "open failed"]
         ELSE IF m.fault = "read"
         THEN zip_loop_no_size_check(members, i + 1,
                  [acc EXCEPT !.results = Append(@, Item(m.name, "failed", "read failed", 0, NoText)),
                              !.read = @ \cup {i}])
         ELSE zip_loop_no_size_check(members, i + 1, Extracted(acc, i, m))

\* The zip branch: directory names and names under __MACOSX/ are skipped, a
\* member above the limit gets the skip text without being opened, z.open is
\* outside the inner try, f.read and extract_text inside it.
RECURSIVE zip_loop(_, _, _)
zip_loop(members, i, acc) ==
    IF i > Len(members) THEN acc
    ELSE LET m == members[i] IN
         IF m.kind # "file" THEN zip_loop(members, i + 1, acc)
         ELSE IF m.size > MEMBER_MAX_BYTES
         THEN zip_loop(members, i + 1,
                  [acc EXCEPT !.results = Append(@, Item(m.name, "skipped", "", m.size \div 1024, NoText))])
         ELSE IF m.fault = "open" THEN [acc EXCEPT !.raised = TRUE, !.err = "open failed"]
         ELSE IF m.fault = "read"
         THEN zip_loop(members, i + 1,
                  [acc EXCEPT !.results = Append(@, Item(m.name, "failed", "read failed", 0, NoText)),
                              !.read = @ \cup {i}])
         ELSE IF m.size > MAX_BYTES
         THEN zip_loop(members, i + 1,
                  [acc EXCEPT !.results = Append(@, Item(m.name, "too_large", "", m.size \div 1024, NoText)),
                              !.read = @ \cup {i}])
         ELSE zip_loop(members, i + 1, Extracted(acc, i, m))

\* The rar branch (directories skipped) and the tar/gz branch (regular files
\* only): every member is read whole, no try around a member.
RECURSIVE read_all_loop(_, _, _)
read_all_loop(members, i, acc) ==
    IF i > Len(members) THEN acc
    ELSE LET m == members[i] IN
         IF m.kind = "dir" THEN read_all_loop(members, i + 1, acc)
         ELSE IF m.fault = "open"
         THEN [acc EXCEPT !.raised = TRUE, !.err = "open failed"]
         ELSE IF m.fault = "read"
         THEN [acc EXCEPT !.raised = TRUE, !.err = "read failed", !.read = @ \cup {i}]
         ELSE read_all_loop(members, i + 1, Extracted(acc, i, m))

\* The 7z branch: z.readall() reads every file of the container before the
\* loop starts.
Files(members) == {i \in 1..Len(members) : members[i].kind # "dir"}

Unreadable(members) == {i \in Files(members) : members[i].fault \in {"open", "read"}}

RECURSIVE sevenzip_loop(_, _, _)
sevenzip_loop(members, i, acc) ==
    IF i > Len(members) THEN acc
    ELSE IF members[i].kind = "dir" THEN sevenzip_loop(members, i + 1, acc)
    ELSE sevenzip_loop(members, i + 1, Extracted(acc, i, members[i]))

readall(members) ==
    IF Unreadable(members) # {}
    THEN Acc(<<>>, Files(members), {}, TRUE, "read failed")
    ELSE sevenzip_loop(members, 1, Acc(<<>>, Files(members), {}, FALSE, ""))

archive_loop(suffix, members) ==
    IF suffix = ".zip" THEN zip_loop(members, 1, Acc(<<>>, {}, {}, FALSE, ""))
    ELSE IF suffix = ".rar" THEN read_all_loop(members, 1, Acc(<<>>, {}, {}, FALSE, ""))
    ELSE IF suffix = ".7z" THEN readall(members)
    ELSE read_all_loop(members, 1, Acc(<<>>, {}, {}, FALSE, ""))

\* process_archive: any exception, from opening the container or from a
\* member loop, gives "[解压失败] <e>" and the results so far are dropped.
process_archive(fp, suffix) ==
    IF ~fp.archive.openable
    THEN Returned(Text("unpack_failed", "not an archive", 0, <<>>))
    ELSE LET acc == archive_loop(suffix, fp.archive.members) IN
         IF acc.raised
         THEN Outcome(FALSE, "", Text("unpack_failed", acc.err, 0, <<>>), FALSE,
                      acc.read, acc.passed)
         ELSE IF acc.results = <<>>
         THEN Outcome(FALSE, "", Text("empty_archive", "", 0, <<>>), FALSE,
                      acc.read, acc.passed)
         ELSE Outcome(FALSE, "", Text("archive", "", 0, acc.results), FALSE,
                      acc.read, acc.passed)

\* The body of extract_text's try statement.
extract_text_try(file_obj) ==
    IF file_obj.form = "path" /\ ~file_obj.exists
    THEN Returned(Text("not_found", "", 0, <<>>))
    ELSE IF file_obj.form = "noread"
    THEN Returned(Text("invalid_object", "", 0, <<>>))
    ELSE IF /\ file_obj.seekable
            /\ file_obj.size > MAX_BYTES
            /\ file_obj.suffix \notin ArchiveSuffixes
    THEN Outcome(FALSE, "", NoText, TRUE, {}, {})
    ELSE IF file_obj.suffix \in DecoderSuffixes
    THEN IF file_obj.corrupt
         THEN Raised("parse error")
         ELSE Returned(Text("text", file_obj.suffix, file_obj.size, <<>>))
    ELSE IF file_obj.suffix \in ArchiveSuffixes
    THEN process_archive(file_obj, file_obj.suffix)
    ELSE Returned(_safe_decode(file_obj.size))

extract_text_reraises(file_obj) == extract_text_try(file_obj)

\* extract_text: except Exception turns what the body raised into
\* "[读取失败] <e>".
extract_text(file_obj) ==
    LET r == extract_text_try(file_obj) IN
    IF r.raised
    THEN Returned(Text("read_failed", r.err, 0, <<>>))
    ELSE r

\* ------------------------------------------------ inputs of extract_text
PlainSuffixes == {".txt", ""}

SourceSizes ==
    {0, 1, MAX_BYTES, MAX_BYTES + 1, MAX_BYTES + chunk_size,
     MAX_BYTES + chunk_size + 1, 2 * MAX_BYTES}

\* A member of a container.
\*   kind   "file", "dir", or "macosx" (a file whose name starts with __MACOSX/)
\*   fault  "none", or what fails for this member: "open" (the member cannot
\*          be opened), "read" (reading its bytes fails), "decode" (the
\*          parser for its suffix fails)
Member(name, suffix, kind, size, fault) ==
    [name |-> name, suffix |-> suffix, kind |-> kind, size |-> size, fault |-> fault]

Members ==
    {Member(n[1], n[2], "file", size, fault) :
        n \in {<<"a.txt", ".txt">>, <<"b.pdf", ".pdf">>},
        size \in {1, MEMBER_MAX_BYTES, MEMBER_MAX_BYTES + 1},
        fault \in {"none", "open", "read", "decode"}}
    \cup {Member("d/", "", "dir", 0, "none"),
          Member("__MACOSX/a.txt", ".txt", "macosx", 1, "none")}

Archives ==
    {NoArchive} \cup
    {[openable |-> TRUE, members |-> ms] : ms \in SeqsUpTo(Members, MaxMembers)}

Sources ==
    {Source("path", FALSE, FALSE, ".txt", 0, FALSE, NoArchive),
     Source("noread", FALSE, FALSE, "", 0, FALSE, NoArchive)}
    \cup {Source(form[1], TRUE, form[2], suffix, size, FALSE, NoArchive) :
            form \in {<<"path", TRUE>>, <<"object", TRUE>>, <<"object", FALSE>>},
            suffix \in PlainSuffixes, size \in SourceSizes}
    \cup {Source(form[1], TRUE, form[2], suffix, size, corrupt, NoArchive) :
            form \in {<<"path", TRUE>>, <<"object", TRUE>>, <<"object", FALSE>>},
            suffix \in {".pdf", ".json"}, size \in SourceSizes, corrupt \in BOOLEAN}
    \cup {Source(form[1], TRUE, form[2], suffix, size, FALSE, a) :
            form \in {<<"path", TRUE>>, <<"object", FALSE>>},
            suffix \in ArchiveSuffixes, size \in {1, MAX_BYTES + 1}, a \in Archives}

\* -------------------------------------------------------- history store
\* history_helper.py.  A string is a sequence of characters, each character
\* a string of length one; ".json" and ".tmp" stand for the suffixes, one
\* clock value for one second of the timestamp.
\* Most saves in a run; also the last second of the clock and the last
\* conversation.
MaxSaves == 2

\* _sanitize keeps the first 50 characters.
SANITIZE_LENGTH == 50

\* list_histories' default limit.
DEFAULT_LIMIT == 50

\* str.isalnum on the characters used here.
Alnum == {"a", "h", "i", "H", "对", "话"}

Chars(n, c) == [i \in 1..n |-> c]

_sanitize(name) ==
    LET kept == SelectSeq(name, LAMBDA c : c \in Alnum \/ c \in {" ", "-", "_"})
    IN  SubSeq(kept, 1, Min(Len(kept), SANITIZE_LENGTH))

\* datetime.datetime.now().strftime("%Y%m%d_%H%M%S") at second `now`.
strftime(now) ==
    CASE now = 1 -> "20240101_000001"
      [] now = 2 -> "20240101_000002"
      [] now = 3 -> "20240101_000003"
      [] OTHER -> "20240101_000004"

\* Strings choices('abc...890', k=4) can return; two of the 36^4.
RandomStrings == {<<"a", "a", "a", "a">>, <<"a", "a", "a", "1">>}

\* The roles on_send gives its messages.
User == <<"u", "s", "e", "r">>

Assistant == <<"a", "s", "s", "i", "s", "t", "a", "n", "t">>

Message(role, content) == [role |-> role, content |-> content]

UserMessages(msgs) == SelectSeq(msgs, LAMBDA m : m.role = User)

\* generate_history_name, with the second and the random string it draws.
generate_history_name(msgs, now, random_str) ==
    LET first == IF UserMessages(msgs) # <<>>
                 THEN UserMessages(msgs)[1].content
                 ELSE <<"对", "话">>
        safe == _sanitize(first)
    IN  <<strftime(now)>> \o <<"_">> \o safe \o <<"_">> \o random_str

\* json.dump / json.loads of the history document: a dict of str keys whose
\* leaves are strings and lists.
json_dump(data) == [json |-> data]

json_loads(text) == text.json

HistoryData(created_at, model_config, msgs, file_context) ==
    [meta |-> [created_at |-> created_at, config |-> model_config],
     messages |-> msgs,
     file_context |-> file_context]

\* {"messages": [], "file_context": "", "meta": {}}
EmptyHistory == HistoryData(0, "", <<>>, "")

\* HISTORY_DIR / f"{name}.json" and HISTORY_DIR / f".{name}.tmp"
JsonFile(name) == name \o <<".json">>

TempFile(name) == <<".">> \o name \o <<".tmp">>

\* Path.stem: the name without its last suffix; a name that is only a
\* leading dot and letters has no suffix.
stem(file) == IF Len(file) = 1 THEN file ELSE SubSeq(file, 1, Len(file) - 1)

\* HISTORY_DIR is a sequence of files, least recently modified first.
\* written_by is not on disk: the conversation whose handler wrote the file
\* (0 for a direct call).
DirFile(file, text, written_by) == [file |-> file, text |-> text, written_by |-> written_by]

Exists(dir, file) == \E i \in 1..Len(dir) : dir[i].file = file

Entry(dir, file) == dir[CHOOSE i \in 1..Len(dir) : dir[i].file = file]

\* open(file, 'w') and write: the file becomes the most recently modified.
WriteFile(dir, file, text, written_by) ==
    SelectSeq(dir, LAMBDA f : f.file # file) \o <<DirFile(file, text, written_by)>>

\* Path.replace: the target is replaced by the source, which keeps its
\* modification time.
ReplaceFile(dir, from, to) ==
    LET kept == SelectSeq(dir, LAMBDA f : f.file # to)
    IN  [i \in 1..Len(kept) |->
            IF kept[i].file = from THEN [kept[i] EXCEPT !.file = to] ELSE kept[i]]

\* What save_history returns and leaves in the directory.
Saved(dir, ret) == [dir |-> dir, ret |-> ret]

save_history_keeps_temp(dir, msgs, file_context, model_config, name, now, random_str, written_by) ==
    IF msgs = <<>> THEN Saved(dir, <<>>)
    ELSE LET n == IF name # <<>> THEN name ELSE generate_history_name(msgs, now, random_str)
             data == HistoryData(now, model_config, msgs, file_context)
         IN  Saved(WriteFile(dir, TempFile(n), json_dump(data), written_by), n)

\* save_history on a POSIX system: the temporary file is written, then
\* replaces the target.  name = <<>> stands for None (and for "", which
\* `name or ...` treats alike).
save_history(dir, msgs, file_context, model_config, name, now, random_str, written_by) ==
    IF msgs = <<>> THEN Saved(dir, <<>>)
    ELSE LET n == IF name # <<>> THEN name ELSE generate_history_name(msgs, now, random_str)
             data == HistoryData(now, model_config, msgs, file_context)
             temp_file == TempFile(n)
             target_file == JsonFile(n)
         IN  Saved(ReplaceFile(WriteFile(dir, temp_file, json_dump(data), written_by),
                               temp_file, target_file),
                   n)

load_history(dir, name) ==
    IF Exists(dir, JsonFile(name))
    THEN json_loads(Entry(dir, JsonFile(name)).text)
    ELSE EmptyHistory

Reverse(s) == [i \in 1..Len(s) |-> s[Len(s) + 1 - i]]

Lower(c) == IF c = "H" THEN "h" ELSE IF c = "U" THEN "u" ELSE c

lower(s) == [i \in 1..Len(s) |-> Lower(s[i])]

\* Series.str.contains(query, case=False) for a query without regular
\* expression metacharacters.
contains(name, query) ==
    \E i \in 1..(Len(name) + 1 - Len(query)) :
        SubSeq(lower(name), i, i + Len(query) - 1) = lower(query)

\* HISTORY_DIR.glob("*.json")
glob(dir) == SelectSeq(dir, LAMBDA f : f.file[Len(f.file)] = ".json")

Row(name, created) == [name |-> name, created |-> created]

\* list_histories: the rows and whether the call raised.  The slice by limit
\* comes before the filter by query; df["name"] on a frame without rows
\* raises KeyError.
Listing(raised, rows) == [raised |-> raised, rows |-> rows]

list_histories(dir, query, limit) ==
    LET sorted == Reverse(glob(dir))
        files == SubSeq(sorted, 1, Min(Len(sorted), limit))
        rows == [i \in 1..Len(files) |->
                    Row(stem(files[i].file), json_loads(files[i].text).meta.created_at)]
    IN  IF query = <<>> THEN Listing(FALSE, rows)
        ELSE IF rows = <<>> THEN Listing(TRUE, <<>>)
        ELSE Listing(FALSE, SelectSeq(rows, LAMBDA r : contains(r.name, query)))

delete_history(dir, name) ==
    IF Exists(dir, JsonFile(name))
    THEN [dir |-> SelectSeq(dir, LAMBDA f : f.file # JsonFile(name)), ret |-> TRUE]
    ELSE [dir |-> dir, ret |-> FALSE]

\* Path.rename on a POSIX system replaces an existing target.
rename_history_overwrites(dir, old, new) ==
    LET old_file == JsonFile(old)
        new_file == JsonFile(_sanitize(new))
    IN  IF Exists(dir, old_file)
        THEN [dir |-> ReplaceFile(dir, old_file, new_file), ret |-> TRUE]
        ELSE [dir |-> dir, ret |-> FALSE]

rename_history(dir, old, new) ==
    LET old_file == JsonFile(old)
        new_file == JsonFile(_sanitize(new))
    IN  IF Exists(dir, old_file) /\ ~Exists(dir, new_file)
        THEN [dir |-> ReplaceFile(dir, old_file, new_file), ret |-> TRUE]
        ELSE [dir |-> dir, ret |-> FALSE]

\* ------------------------------------------------------ import of a file
\* history_helper.py: import_history.  The text of a file is a sequence of
\* characters; "\n" ends a line and " " is the whitespace.
Newline == "\n"

Whitespace == {" "}

FirstIndex(s, c) ==
    IF \E i \in 1..Len(s) : s[i] = c
    THEN CHOOSE i \in 1..Len(s) : s[i] = c /\ \A j \in 1..(i - 1) : s[j] # c
    ELSE 0

\* str.splitlines: the text between the line ends; a line end at the very
\* end opens no further line.
RECURSIVE splitlines(_)
splitlines(text) ==
    IF text = <<>> THEN <<>>
    ELSE LET i == FirstIndex(text, Newline)
         IN  IF i = 0 THEN <<text>>
             ELSE <<SubSeq(text, 1, i - 1)>> \o splitlines(SubSeq(text, i + 1, Len(text)))

\* str.strip: without the whitespace at both ends.
RECURSIVE strip(_)
strip(s) ==
    IF s = <<>> THEN s
    ELSE IF Head(s) \in Whitespace THEN strip(Tail(s))
    ELSE IF s[Len(s)] \in Whitespace THEN strip(SubSeq(s, 1, Len(s) - 1))
    ELSE s

\* Of a line that holds a colon, split at the last colon.
parse_line_last_colon(line) ==
    LET i == CHOOSE i \in 1..Len(line) :
                 line[i] = ":" /\ \A j \in (i + 1)..Len(line) : line[j] # ":"
    IN  Message(lower(strip(SubSeq(line, 1, i - 1))), strip(SubSeq(line, i + 1, Len(line))))

\* role, content = line.split(":", 1), then
\* {"role": role.strip().lower(), "content": content.strip()}
parse_line(line) ==
    LET i == FirstIndex(line, ":")
        role == SubSeq(line, 1, i - 1)
        content == SubSeq(line, i + 1, Len(line))
    IN  Message(lower(strip(role)), strip(content))

\* The loop over the lines of the text.
RECURSIVE parse_lines(_)
parse_lines(lines) ==
    IF lines = <<>> THEN <<>>
    ELSE IF FirstIndex(Head(lines), ":") # 0
         THEN <<parse_line(Head(lines))>> \o parse_lines(Tail(lines))
         ELSE parse_lines(Tail(lines))

\* Path.suffix.lower()
suffix_lower(suffix) ==
    CASE suffix = ".TXT" -> ".txt"
      [] suffix = ".MD" -> ".md"
      [] OTHER -> suffix

\* A file to import.
\*   suffix  of its name
\*   text    its characters (of a .json file: not looked at here)
\*   json    of a .json file: whether json.loads accepts it
\*   data    of a .json file json.loads accepts: the document
\*   lines   not on disk: the lines the text was made of
ImportFile(suffix, text, json, data, lines) ==
    [suffix |-> suffix, text |-> text, json |-> json, data |-> data, lines |-> lines]

\* What import_history gives: it raised, or it returned ret; dir is
\* HISTORY_DIR after the call.
Imported(raised, ret, dir) == [raised |-> raised, ret |-> ret, dir |-> dir]

\* import_history; meta of a text file is {}, so the config saved is {}.
import_history(dir, file, now, random_str) ==
    IF suffix_lower(file.suffix) = ".json"
    THEN IF file.json
         THEN LET saved == save_history(dir, file.data.messages, file.data.file_context,
                                        file.data.meta.config, <<>>, now, random_str, 0)
              IN  Imported(FALSE, saved.ret, saved.dir)
         ELSE Imported(TRUE, <<>>, dir)
    ELSE IF suffix_lower(file.suffix) \in {".txt", ".md"}
    THEN LET msgs == parse_lines(splitlines(file.text))
             saved == save_history(dir, msgs, "", "{}", <<>>, now, random_str, 0)
         IN  Imported(FALSE, saved.ret, saved.dir)
    ELSE Imported(TRUE, <<>>, dir)

\* ------------------------------------------------------- new_conversation
\* history_helper.py: new_conversation takes session_state from the module
\* named ui_desktop at the time of the call.  Launched as a script
\* (python ui_desktop.py, the only launch the repository has), the running
\* module is __main__ and the import loads ui_desktop.py a second time: the
\* session_state it gives is that of the second copy, whose messages nothing
\* ever appends to.  Loaded as the module ui_desktop by a launcher, the
\* import gives the running session_state.
Launches == {"module", "script"}

imported_messages(how, msgs) == IF how = "script" THEN <<>> ELSE msgs

\* The try block: with a file uploaded, building file_ctx calls
\* extract_text, a name history_helper.py never imports; the NameError is
\* caught and logged, save_history is not reached.  Without a file,
\* file_ctx is "" and the messages are saved without a name.
new_conversation(dir, msgs, files, model_config, now, random_str, written_by) ==
    IF msgs # <<>>
    THEN IF files # <<>>
         THEN Saved(dir, <<>>)
         ELSE save_history(dir, msgs, "", model_config, <<>>, now, random_str, written_by)
    ELSE Saved(dir, <<>>)

\* --------------------------------------------------------- configuration
\* config_helper.py.  A JSON value of model_config.json is a number or a
\* text; temperature, top_p and repeat_penalty are in tenths (0.7 is 7).
Number(v) == [kind |-> "number", v |-> v]

TextValue == [kind |-> "text", v |-> 0]

Missing == [kind |-> "missing", v |-> 0]

ConfigFields == {"temperature", "top_p", "repeat_penalty", "num_ctx", "seed"}

DEFAULT_CONFIG ==
    [temperature |-> Number(7), top_p |-> Number(9), repeat_penalty |-> Number(11),
     num_ctx |-> Number(2048), seed |-> Number(-1)]

\* The ge and le of ModelConfig's fields; seed has none.
FieldBounds ==
    [temperature |-> [ge |-> 1, le |-> 20],
     top_p |-> [ge |-> 1, le |-> 10],
     repeat_penalty |-> [ge |-> 10, le |-> 20],
     num_ctx |-> [ge |-> 512, le |-> 128000]]

\* model_config.json.
\*   form    "absent", "malformed" (not JSON), "list" (JSON, not an object),
\*           "object"
\*   fields  for an object, the value under each key of ConfigFields
ConfigFile(form, fields) == [form |-> form, fields |-> fields]

NoFields == [f \in ConfigFields |-> Missing]

\* {**DEFAULT_CONFIG, **loaded}: a key of the file wins over the default.
merge_config(loaded) ==
    [f \in ConfigFields |-> IF loaded[f].kind = "missing" THEN DEFAULT_CONFIG[f] ELSE loaded[f]]

\* load_model_config: an absent file, text that json.loads rejects and JSON
\* that ** cannot unpack give DEFAULT_CONFIG.copy().
load_model_config(file) ==
    IF file.form = "object"
    THEN merge_config(file.fields)
    ELSE DEFAULT_CONFIG

ConfigFiles ==
    {ConfigFile(form, NoFields) : form \in {"absent", "malformed", "list"}}
    \cup
    {ConfigFile("object",
                [temperature |-> t, top_p |-> p, repeat_penalty |-> r, num_ctx |-> n,
                 seed |-> s]) :
        t \in {Missing, TextValue, Number(0), Number(1), Number(7), Number(20), Number(21)},
        p \in {Missing, Number(0), Number(5), Number(11)},
        r \in {Missing, Number(9), Number(15), Number(21)},
        n \in {Missing, Number(511), Number(4096), Number(128001)},
        s \in {Missing, Number(42)}}

\* ------------------------------------------------------- hash of a file
\* file_loader.py: _file_hash and FileEntry.  The files are a function from
\* Paths to the bytes they hold (a member of Contents) or NoBytes for a path
\* where no file is.
Paths == {"p", "q"}

NoBytes == 0

\* hashlib.sha256 over the chunks read, as a hex digest.
sha256_hexdigest(bytes) == <<"sha256", bytes>>

\* functools.lru_cache(maxsize=128): the entries in order of use, the least
\* recently used first.
maxsize == 128

CacheEntry(key, value) == [key |-> key, value |-> value]

Cached(cache, key) == \E i \in 1..Len(cache) : cache[i].key = key

\* The place of key in the memo.
CachedValue(cache, key) == CHOOSE i \in 1..Len(cache) : cache[i].key = key

Touch(cache, key) ==
    SelectSeq(cache, LAMBDA e : e.key # key)
        \o <<cache[CachedValue(cache, key)]>>

Insert(cache, key, value) ==
    IF Len(cache) >= maxsize
    THEN Append(Tail(cache), CacheEntry(key, value))
    ELSE Append(cache, CacheEntry(key, value))

\* What a call gives: it raised, or it returned ret; cache is the memo after
\* the call.
HashResult(raised, ret, cache) == [raised |-> raised, ret |-> ret, cache |-> cache]

\* The body of _file_hash: open(path) fails where no file is, and the
\* exception is raised again.
file_hash_body(files, path) ==
    IF files[path] = NoBytes
    THEN [raised |-> TRUE, ret |-> sha256_hexdigest(NoBytes)]
    ELSE [raised |-> FALSE, ret |-> sha256_hexdigest(files[path])]

\* _file_hash with its memo: a hit returns the remembered digest without
\* running the body; a call that raises is not remembered.
_file_hash(files, cache, path) ==
    IF Cached(cache, path)
    THEN HashResult(FALSE, cache[CachedValue(cache, path)].value, Touch(cache, path))
    ELSE IF file_hash_body(files, path).raised
         THEN HashResult(TRUE, file_hash_body(files, path).ret, cache)
         ELSE HashResult(FALSE, file_hash_body(files, path).ret,
                         Insert(cache, path, file_hash_body(files, path).ret))

\* ------------------------------------------------------------ variables
Threads == {1, 2}

VARIABLES
    p_start,    \* record list before the calls of p_calls
    p_prev,     \* record list before the last call
    p_list,     \* record list returned by the last call
    p_calls,    \* the calls applied so far
    phase,      \* "stopped", "imported" (module loaded), "serving" (main ran)
    upload_dir, \* the non-hidden files of UPLOAD_DIR, oldest first
    state_file, \* UPLOAD_STATE_FILE
    temp_file,  \* UPLOAD_STATE_FILE.with_suffix('.tmp')
    uploaded_files,  \* session_state["uploaded_files"]
    first_run,  \* session_state["_first_run"]
    before_stop,     \* session_state["uploaded_files"] when the process last stopped
    pc,         \* per thread: the statement it is at
    h_input,    \* handle_file_upload: pin.files, the batch the user selected
    h_files,    \* handle_file_upload: the files of the for loop still to process
    h_current,  \* handle_file_upload: current_files
    h_new,      \* handle_file_upload: new_files
    h_merged,   \* handle_file_upload: merged_files
    s_files,    \* save_uploaded_files: files
    s_ret,      \* save_uploaded_files: the statement of the caller to return to
    s_old,      \* save_uploaded_files: UPLOAD_STATE_FILE when the call began
    s_failed,   \* save_uploaded_files: the except branch was taken
    s_result    \* save_uploaded_files: what the caller got, "None" or "raised"

\* The state of one extract_text call (tools.py).
VARIABLES
    x_src,      \* the argument: a path or a file object, with what it holds
    x_pc,       \* "off", "ready", "large" (inside _extract_large_file), "done"
    x_total,    \* _extract_large_file: total, the bytes read so far
    x_out       \* what the caller got

\* The history store and the session that writes to it (history_helper.py,
\* ui_desktop.py).
VARIABLES
    history_dir,    \* the files of HISTORY_DIR, least recently modified first
    messages,       \* session_state["messages"]
    conversation,   \* number of the conversation under way, from 1
    now,            \* the clock, in seconds
    returned_names, \* the names save_history returned, in order
    last_call       \* the last call: its arguments and what it returned

\* The configuration at start-up (config_helper.py, ui_desktop.py).
VARIABLES
    config_file,    \* model_config.json
    model_config,   \* session_state["model_config"]
    config_pc       \* "off", "ready" (before the module is loaded), "done"

\* Hashing files (file_loader.py).
VARIABLES
    hash_files,     \* the bytes at each of Paths
    hash_cache,     \* the memo of _file_hash
    hash_call       \* the last call: its path, the bytes there, the result

\* Import of a file into the history store (history_helper.py).
VARIABLES
    import_file,    \* the file import_history is given
    import_call     \* the last call: what it gave and HISTORY_DIR before it

\* How ui_desktop.py was loaded: a member of Launches.
VARIABLES launch

pure_vars == <<p_start, p_prev, p_list, p_calls>>

disk_vars == <<upload_dir, state_file, temp_file>>

session_vars == <<uploaded_files, first_run>>

handler_vars == <<h_input, h_files, h_current, h_new, h_merged>>

save_vars == <<s_files, s_ret, s_old, s_failed, s_result>>

program_vars ==
    <<phase, disk_vars, session_vars, before_stop, pc, handler_vars, save_vars>>

extract_vars == <<x_src, x_pc, x_total, x_out>>

history_vars == <<history_dir, messages, conversation, now, returned_names, last_call>>

config_vars == <<config_file, model_config, config_pc>>

hash_vars == <<hash_files, hash_cache, hash_call>>

import_vars == <<import_file, import_call>>

later_vars == <<config_vars, hash_vars, import_vars, launch>>

aside_vars == <<extract_vars, history_vars, later_vars>>

vars == <<pure_vars, program_vars, aside_vars>>

\* No extract_text call under way.
ExtractIdle ==
    /\ x_src = NoSource
    /\ x_pc = "off"
    /\ x_total = 0
    /\ x_out = NoOutcome

\* An empty HISTORY_DIR, a session without messages, no call made.
HistoryIdle ==
    /\ history_dir = <<>>
    /\ messages = <<>>
    /\ conversation = 1
    /\ now = 1
    /\ returned_names = <<>>
    /\ last_call = [op |-> "none"]

\* The configuration is not looked at.
ConfigIdle ==
    /\ config_file = ConfigFile("absent", NoFields)
    /\ model_config = DEFAULT_CONFIG
    /\ config_pc = "off"

\* No file is hashed.
HashIdle ==
    /\ hash_files = [path \in Paths |-> NoBytes]
    /\ hash_cache = <<>>
    /\ hash_call = [op |-> "none"]

\* No file is imported.
ImportIdle ==
    /\ import_file = ImportFile(".txt", <<>>, FALSE, EmptyHistory, <<>>)
    /\ import_call = [op |-> "none"]

\* Where no message is ever appended the launch makes no difference.
LaunchIdle == launch = "script"

LaterIdle == ConfigIdle /\ HashIdle /\ ImportIdle /\ LaunchIdle

AsideIdle == ExtractIdle /\ HistoryIdle /\ LaterIdle

\* No call of the merge functions under observation.
PureIdle ==
    /\ p_start = <<>>
    /\ p_prev = <<>>
    /\ p_list = <<>>
    /\ p_calls = <<>>

Call(op, new_files, check_content) ==
    [op |-> op, new |-> new_files, check |-> check_content]

\* ------------------------------------------- the merge functions alone
\* Every thread idle, no local of a handler alive.
NoLocals ==
    /\ pc = [t \in Threads |-> "idle"]
    /\ h_input = [t \in Threads |-> <<>>]
    /\ h_files = [t \in Threads |-> <<>>]
    /\ h_current = [t \in Threads |-> <<>>]
    /\ h_new = [t \in Threads |-> <<>>]
    /\ h_merged = [t \in Threads |-> <<>>]
    /\ s_files = [t \in Threads |-> <<>>]
    /\ s_ret = [t \in Threads |-> "idle"]
    /\ s_old = [t \in Threads |-> NoFile]
    /\ s_failed = [t \in Threads |-> FALSE]
    /\ s_result = [t \in Threads |-> "None"]

\* A fresh installation, the process not started.
ProgramStopped ==
    /\ phase = "stopped"
    /\ upload_dir = <<>>
    /\ state_file = NoFile
    /\ temp_file = NoFile
    /\ uploaded_files = <<>>
    /\ first_run = TRUE
    /\ before_stop = <<>>
    /\ NoLocals

InitPure ==
    /\ p_start \in LoadableLists
    /\ p_prev = p_start
    /\ p_list = p_start
    /\ p_calls = <<>>
    /\ ProgramStopped
    /\ AsideIdle

\* The claims on the merge functions concern one call or two calls in a row.
CallAddOrReplace ==
    \E new_file \in AllRecords, check_content \in BOOLEAN :
        /\ Len(p_calls) < 2
        /\ p_prev' = p_list
        /\ p_list' = add_or_replace_file_with_content(new_file, p_list, check_content)
        /\ p_calls' = Append(p_calls, Call("single", <<new_file>>, check_content))
        /\ UNCHANGED <<p_start, program_vars, aside_vars>>

CallAddOrReplaceBatch ==
    \E new_files \in Batches :
        /\ Len(p_calls) < 2
        /\ p_prev' = p_list
        /\ p_list' = add_or_replace_file_with_content_batch(new_files, p_list)
        /\ p_calls' = Append(p_calls, Call("batch", new_files, TRUE))
        /\ UNCHANGED <<p_start, program_vars, aside_vars>>

NextPure == CallAddOrReplace \/ CallAddOrReplaceBatch

SpecPure == InitPure /\ [][NextPure]_vars

\* ------------------------------------------------------ save_uploaded_files
Set(f, t, v) == [f EXCEPT ![t] = v]

\* A call save_uploaded_files(files) by thread t, to continue at ret.
CallSave(t, files, ret) ==
    /\ pc' = Set(pc, t, "save_write")
    /\ s_files' = Set(s_files, t, files)
    /\ s_ret' = Set(s_ret, t, ret)
    /\ s_old' = Set(s_old, t, state_file)
    /\ s_failed' = Set(s_failed, t, FALSE)
    /\ s_result' = Set(s_result, t, "None")

\* The function returns to its caller; its locals die.
Return(t) ==
    /\ pc' = Set(pc, t, s_ret[t])
    /\ s_files' = Set(s_files, t, <<>>)
    /\ s_old' = Set(s_old, t, NoFile)

\* The except branch: log the error, unlink the temp file if it exists, and
\* fall off the end of the function (nothing is raised or returned).
Except(t) ==
    /\ pc' = Set(pc, t, "save_except")
    /\ s_failed' = Set(s_failed, t, TRUE)

\* with open(temp_file, 'w') as f: json.dump(serializable, f)
SaveWrite(t) ==
    /\ pc[t] = "save_write"
    /\ temp_file' = File(serializable(s_files[t]))
    /\ pc' = Set(pc, t, "save_exists")
    /\ UNCHANGED <<pure_vars, aside_vars, phase, upload_dir, state_file, session_vars, before_stop,
                   handler_vars, s_files, s_ret, s_old, s_failed, s_result>>

\* The write raises (disk full, permissions) with the temp file part written.
SaveWriteFails(t) ==
    /\ pc[t] = "save_write"
    /\ temp_file' = PartialFile
    /\ Except(t)
    /\ UNCHANGED <<pure_vars, aside_vars, phase, upload_dir, state_file, session_vars, before_stop,
                   handler_vars, s_files, s_ret, s_old, s_result>>

\* if UPLOAD_STATE_FILE.exists():
SaveExists(t) ==
    /\ pc[t] = "save_exists"
    /\ pc' = Set(pc, t, IF state_file.exists THEN "save_unlink" ELSE "save_rename")
    /\ UNCHANGED <<pure_vars, aside_vars, phase, disk_vars, session_vars, before_stop,
                   handler_vars, save_vars>>

\* UPLOAD_STATE_FILE.unlink(): raises when another thread removed the file
\* since the exists() test.
SaveUnlink(t) ==
    /\ pc[t] = "save_unlink"
    /\ IF state_file.exists
       THEN /\ state_file' = NoFile
            /\ pc' = Set(pc, t, "save_rename")
            /\ UNCHANGED s_failed
       ELSE /\ Except(t)
            /\ UNCHANGED state_file
    /\ UNCHANGED <<pure_vars, aside_vars, phase, upload_dir, temp_file, session_vars, before_stop,
                   handler_vars, s_files, s_ret, s_old, s_result>>

\* The unlink raises (permissions, file in use).
SaveUnlinkFails(t) ==
    /\ pc[t] = "save_unlink"
    /\ Except(t)
    /\ UNCHANGED <<pure_vars, aside_vars, phase, disk_vars, session_vars, before_stop,
                   handler_vars, s_files, s_ret, s_old, s_result>>

\* temp_file.rename(UPLOAD_STATE_FILE): raises when another thread renamed
\* or removed the temp file; otherwise the function returns.
SaveRename(t) ==
    /\ pc[t] = "save_rename"
    /\ IF temp_file.exists
       THEN /\ state_file' = temp_file
            /\ temp_file' = NoFile
            /\ Return(t)
            /\ UNCHANGED s_failed
       ELSE /\ Except(t)
            /\ UNCHANGED <<state_file, temp_file, s_files, s_old>>
    /\ UNCHANGED <<pure_vars, aside_vars, phase, upload_dir, session_vars, before_stop,
                   handler_vars, s_ret, s_result>>

\* The rename raises (permissions, file in use).
SaveRenameFails(t) ==
    /\ pc[t] = "save_rename"
    /\ Except(t)
    /\ UNCHANGED <<pure_vars, aside_vars, phase, disk_vars, session_vars, before_stop,
                   handler_vars, s_files, s_ret, s_old, s_result>>

\* except Exception as e: logger.error(...); if temp_file.exists():
\* temp_file.unlink().  The function then returns None, as on success.
SaveExcept(t) ==
    /\ pc[t] = "save_except"
    /\ temp_file' = NoFile
    /\ s_result' = Set(s_result, t, "None")
    /\ Return(t)
    /\ UNCHANGED <<pure_vars, aside_vars, phase, upload_dir, state_file, session_vars, before_stop,
                   handler_vars, s_ret, s_failed>>

InSave(t) == pc[t] \in {"save_write", "save_exists", "save_unlink", "save_rename", "save_except"}

\* ------------------------------------------------------- process lifecycle
\* Module import of ui_desktop.py: session_state is built, uploaded_files
\* from load_uploaded_files().
Start ==
    /\ phase = "stopped"
    /\ phase' = "imported"
    /\ uploaded_files' = load_uploaded_files(upload_dir)
    /\ first_run' = TRUE
    /\ UNCHANGED <<pure_vars, aside_vars, disk_vars, before_stop, pc, handler_vars, save_vars>>

\* main() of the first session, the _first_run block: the messages and the
\* uploaded files are reset and the empty list is saved.
Main(t) ==
    /\ phase = "imported"
    /\ pc[t] = "idle"
    /\ first_run
    /\ uploaded_files' = <<>>
    /\ CallSave(t, <<>>, "main_end")
    /\ UNCHANGED <<pure_vars, aside_vars, phase, disk_vars, first_run, before_stop, handler_vars>>

\* session_state["_first_run"] = False; the page is up.
MainEnd(t) ==
    /\ pc[t] = "main_end"
    /\ first_run' = FALSE
    /\ phase' = "serving"
    /\ pc' = Set(pc, t, "idle")
    /\ UNCHANGED <<pure_vars, aside_vars, disk_vars, uploaded_files, before_stop, handler_vars,
                   save_vars>>

\* The process ends: memory is lost, the upload directory and its hidden
\* files stay as they are.
Exit ==
    /\ phase' = "stopped"
    /\ before_stop' = uploaded_files
    /\ uploaded_files' = <<>>
    /\ first_run' = TRUE
    /\ pc' = [t \in Threads |-> "idle"]
    /\ h_input' = [t \in Threads |-> <<>>]
    /\ h_files' = [t \in Threads |-> <<>>]
    /\ h_current' = [t \in Threads |-> <<>>]
    /\ h_new' = [t \in Threads |-> <<>>]
    /\ h_merged' = [t \in Threads |-> <<>>]
    /\ s_files' = [t \in Threads |-> <<>>]
    /\ s_ret' = [t \in Threads |-> "idle"]
    /\ s_old' = [t \in Threads |-> NoFile]
    /\ s_failed' = [t \in Threads |-> FALSE]
    /\ s_result' = [t \in Threads |-> "None"]
    /\ UNCHANGED <<pure_vars, aside_vars, disk_vars>>

AllIdle == \A t \in Threads : pc[t] = "idle"

\* The user closes the program while no handler is running.
Stop ==
    /\ phase # "stopped"
    /\ AllIdle
    /\ Exit

\* The process is killed while a handler is running.
Kill ==
    /\ phase # "stopped"
    /\ ~AllIdle
    /\ Exit

\* While the process is down a file of the upload directory is deleted by
\* the user or another program.
ExternalDelete ==
    /\ phase = "stopped"
    /\ \E i \in 1..Len(upload_dir) :
          upload_dir' = remove_file_from_disk(upload_dir, upload_dir[i].filename)
    /\ UNCHANGED <<pure_vars, aside_vars, phase, state_file, temp_file, session_vars, before_stop,
                   pc, handler_vars, save_vars>>

\* ------------------------------------------------------- handle_file_upload
\* The handler starts on a non-empty pin.files: current_files is read.
HandleFileUpload(t) ==
    /\ phase = "serving"
    /\ pc[t] = "idle"
    /\ \E files \in UploadBatches :
          /\ h_input' = Set(h_input, t, files)
          /\ h_files' = Set(h_files, t, files)
    /\ h_current' = Set(h_current, t, uploaded_files)
    /\ h_new' = Set(h_new, t, <<>>)
    /\ pc' = Set(pc, t, "upload_loop")
    /\ UNCHANGED <<pure_vars, aside_vars, phase, disk_vars, session_vars, before_stop, h_merged,
                   save_vars>>

\* One round of the for loop: a file whose hash is a key of current_files is
\* skipped; any other is written to disk and gets a record in new_files.
UploadLoop(t) ==
    /\ pc[t] = "upload_loop"
    /\ h_files[t] # <<>>
    /\ LET file_data == Head(h_files[t])
           file_hash == _content_hash(file_data.content)
       IN  IF HasKey(h_current[t], file_hash)
           THEN UNCHANGED <<upload_dir, h_new>>
           ELSE /\ upload_dir' = save_file_to_disk(upload_dir, file_data.filename,
                                                   file_data.content)
                /\ h_new' = Set(h_new, t, Append(h_new[t],
                                                 FileRecord(file_data.filename, file_hash)))
    /\ h_files' = Set(h_files, t, Tail(h_files[t]))
    /\ UNCHANGED <<pure_vars, aside_vars, phase, state_file, temp_file, session_vars, before_stop,
                   pc, h_input, h_current, h_merged, save_vars>>

\* After the loop: with no new file the handler returns at once (its
\* locals die in UploadDone); otherwise the lists are merged, stored in the
\* session and saved.
UploadMerge(t) ==
    /\ pc[t] = "upload_loop"
    /\ h_files[t] = <<>>
    /\ IF h_new[t] = <<>>
       THEN /\ pc' = Set(pc, t, "upload_done")
            /\ UNCHANGED <<uploaded_files, h_merged, save_vars>>
       ELSE LET merged_files ==
                    add_or_replace_file_with_content_batch(h_new[t], h_current[t])
            IN  /\ h_merged' = Set(h_merged, t, merged_files)
                /\ uploaded_files' = merged_files
                /\ CallSave(t, merged_files, "upload_again")
    /\ UNCHANGED <<pure_vars, aside_vars, phase, disk_vars, first_run, before_stop,
                   h_input, h_files, h_current, h_new>>

\* session_state["uploaded_files"] = merged_files and the second save.
UploadAgain(t) ==
    /\ pc[t] = "upload_again"
    /\ uploaded_files' = h_merged[t]
    /\ CallSave(t, h_merged[t], "upload_done")
    /\ UNCHANGED <<pure_vars, aside_vars, phase, disk_vars, first_run, before_stop, handler_vars>>

\* refresh_file_tags(), toast, pin.files = []: the handler returns.
UploadDone(t) ==
    /\ pc[t] = "upload_done"
    /\ pc' = Set(pc, t, "idle")
    /\ h_input' = Set(h_input, t, <<>>)
    /\ h_files' = Set(h_files, t, <<>>)
    /\ h_current' = Set(h_current, t, <<>>)
    /\ h_new' = Set(h_new, t, <<>>)
    /\ h_merged' = Set(h_merged, t, <<>>)
    /\ UNCHANGED <<pure_vars, aside_vars, phase, disk_vars, session_vars, before_stop, save_vars>>

\* --------------------------------------------------- new_conversation_click
\* new_conversation() is called; then the session's messages and uploaded
\* files are reset and the empty list is saved; the files stay in the upload
\* directory.
NewConversationClick(t) ==
    /\ phase = "serving"
    /\ pc[t] = "idle"
    /\ \E random_str \in RandomStrings :
        history_dir' = new_conversation(history_dir, imported_messages(launch, messages),
                                        uploaded_files, "cfg", now, random_str,
                                        conversation).dir
    /\ messages' = <<>>
    /\ uploaded_files' = <<>>
    /\ CallSave(t, <<>>, "click_done")
    /\ UNCHANGED <<pure_vars, extract_vars, later_vars, conversation, now, returned_names,
                   last_call, phase, disk_vars, first_run, before_stop, handler_vars>>

\* ------------------------------------------------- delete_file_with_confirm
\* The user confirms: the file is removed from disk, its record popped from
\* the session's list, the list saved.
DeleteFileWithConfirm(t) ==
    /\ phase = "serving"
    /\ pc[t] = "idle"
    /\ \E idx \in 1..Len(uploaded_files) :
          /\ upload_dir' = remove_file_from_disk(upload_dir, uploaded_files[idx].filename)
          /\ uploaded_files' = pop(uploaded_files, idx)
          /\ CallSave(t, pop(uploaded_files, idx), "click_done")
    /\ UNCHANGED <<pure_vars, aside_vars, phase, state_file, temp_file, first_run, before_stop,
                   handler_vars>>

\* The UI is refreshed and the callback returns.
ClickDone(t) ==
    /\ pc[t] = "click_done"
    /\ pc' = Set(pc, t, "idle")
    /\ UNCHANGED <<pure_vars, aside_vars, phase, disk_vars, session_vars, before_stop, handler_vars,
                   save_vars>>

\* ------------------------------------------------------ the specifications
Init ==
    /\ p_start = <<>>
    /\ p_prev = <<>>
    /\ p_list = <<>>
    /\ p_calls = <<>>
    /\ ProgramStopped
    /\ AsideIdle

\* One UI thread, no failure of the file system.
Next ==
    \/ Start
    \/ Stop
    \/ ExternalDelete
    \/ Main(1)
    \/ MainEnd(1)
    \/ HandleFileUpload(1)
    \/ UploadLoop(1)
    \/ UploadMerge(1)
    \/ UploadAgain(1)
    \/ UploadDone(1)
    \/ NewConversationClick(1)
    \/ DeleteFileWithConfirm(1)
    \/ ClickDone(1)
    \/ SaveWrite(1)
    \/ SaveExists(1)
    \/ SaveUnlink(1)
    \/ SaveRename(1)

Spec == Init /\ [][Next]_vars

\* One UI thread; a step of save_uploaded_files may fail and the process
\* may be killed at any statement.
NextFaults ==
    \/ Next
    \/ Kill
    \/ SaveWriteFails(1)
    \/ SaveUnlinkFails(1)
    \/ SaveRenameFails(1)
    \/ SaveExcept(1)

SpecFaults == Init /\ [][NextFaults]_vars

\* Two sessions of one process, each running handle_file_upload once on the
\* store main() left behind; no injected failure, no stop.
InitConc ==
    /\ p_start = <<>>
    /\ p_prev = <<>>
    /\ p_list = <<>>
    /\ p_calls = <<>>
    /\ phase = "serving"
    /\ upload_dir = <<>>
    /\ state_file = File(<<>>)
    /\ temp_file = NoFile
    /\ uploaded_files = <<>>
    /\ first_run = FALSE
    /\ before_stop = <<>>
    /\ NoLocals
    /\ AsideIdle

NextConc ==
    \/ \E t \in Threads : HandleFileUpload(t)
    \/ \E t \in Threads : UploadLoop(t)
    \/ \E t \in Threads : UploadMerge(t)
    \/ \E t \in Threads : UploadAgain(t)
    \/ \E t \in Threads : SaveWrite(t)
    \/ \E t \in Threads : SaveExists(t)
    \/ \E t \in Threads : SaveUnlink(t)
    \/ \E t \in Threads : SaveRename(t)
    \/ \E t \in Threads : SaveExcept(t)

SpecConc == InitConc /\ [][NextConc]_vars

\* ------------------------------------------------ claims on the merge
LastCall == p_calls[Len(p_calls)]

\* The call adds nothing but content key: every record it carries holds key,
\* and the content check is on.
AddsOnly(call, key) ==
    /\ call.check
    /\ \A i \in 1..Len(call.new) : call.new[i].key = key

AddedTwice(key) ==
    \/ /\ Len(p_calls) = 2
       /\ AddsOnly(p_calls[1], key)
       /\ AddsOnly(p_calls[2], key)
    \/ /\ Len(p_calls) = 1
       /\ p_calls[1].op = "batch"
       /\ Len(p_calls[1].new) >= 2
       /\ AddsOnly(p_calls[1], key)

AddedOne(new_file) ==
    /\ Len(p_calls) >= 1
    /\ LastCall.new = <<new_file>>

HoldsOnly(files, filename, key) ==
    /\ CountName(files, filename) = 1
    /\ \A i \in 1..Len(files) : files[i].filename = filename => files[i].key = key

\* C3 as stated: whenever the list holds a record (F, K1), adding a record
\* (F, K2) with K2 # K1 leaves exactly one record named F, holding K2.
C3_AsStated ==
    \A new_file \in AllRecords :
        ( /\ AddedOne(new_file)
          /\ \E i \in 1..Len(p_prev) :
                /\ p_prev[i].filename = new_file.filename
                /\ p_prev[i].key # new_file.key )
        => HoldsOnly(p_list, new_file.filename, new_file.key)

\* C3 amended: the same, provided no record of the list already holds K2
\* (or the call is add_or_replace_file_with_content with check_content off).
C3_ReplaceByFilename ==
    \A new_file \in AllRecords :
        ( /\ AddedOne(new_file)
          /\ \E i \in 1..Len(p_prev) :
                /\ p_prev[i].filename = new_file.filename
                /\ p_prev[i].key # new_file.key
          /\ (~HasKey(p_prev, new_file.key) \/ ~LastCall.check) )
        => HoldsOnly(p_list, new_file.filename, new_file.key)

C3_Witness ==
    \E new_file \in AllRecords :
        /\ AddedOne(new_file)
        /\ LastCall.check
        /\ Len(p_prev) = 2
        /\ HasName(p_prev, new_file.filename)
        /\ ~HasKey(p_prev, new_file.key)
        /\ HoldsOnly(p_list, new_file.filename, new_file.key)

\* C9: add_or_replace_file_with_content_batch(batch, existing) returns the
\* list that add_or_replace_file_with_content (check_content on) builds when
\* applied to each batch member in order.
C9_BatchEqualsOneByOne ==
    (Len(p_calls) >= 1 /\ LastCall.op = "batch")
        => p_list = one_by_one(LastCall.new, p_prev)

\* ------------------------------------------------ claims on the program
NoSharedKey(files) ==
    \A i, j \in 1..Len(files) : files[i].key = files[j].key => i = j

\* C1: in every state of the upload record list reachable from
\* load_uploaded_files() by add_or_replace calls, no two records share a
\* content key.
C1_NoSharedContentKey == NoSharedKey(uploaded_files)

RecordSet(files) == {files[i] : i \in 1..Len(files)}

\* C4: when main() has run its first session initialisation after a restart,
\* every record the list held before the stop whose file is still on disk is
\* in the session's list again, with the same filename and content key.
C4_UploadsSurviveRestart ==
    [][(phase = "imported" /\ phase' = "serving")
          => \A r \in RecordSet(before_stop) :
                OnDisk(upload_dir', r.filename) => r \in RecordSet(uploaded_files')]_vars

\* C5: at every step of save_uploaded_files the canonical index file holds
\* the complete list it held when the call began or the complete new list.
C5_IndexOldOrNew ==
    \A t \in Threads :
        InSave(t) =>
            \/ state_file = s_old[t]
            \/ state_file = File(serializable(s_files[t]))

\* C6: when a step of save_uploaded_files failed, the temp file is removed
\* and the caller gets an error outcome instead of the normal return.
C6_FailureReported ==
    \A t \in Threads :
        (~InSave(t) /\ s_failed[t]) =>
            /\ ~temp_file.exists
            /\ s_result[t] = "raised"

\* C7: load_uploaded_files() after save_uploaded_files(records) returns
\* exactly the persisted records whose file is on disk at load time.
C7_SaveLoadRoundTrip ==
    (phase = "imported" /\ pc[1] = "idle" /\ state_file.exists /\ state_file.complete)
        => RecordSet(uploaded_files)
             = {r \in RecordSet(state_file.data) : OnDisk(upload_dir, r.filename)}

\* C10: after any sequence of uploads, file deletions and new-conversation
\* resets, no two files of the upload directory hold the same bytes.
C10_NoDuplicateStorage ==
    AllIdle
        => \A i, j \in 1..Len(upload_dir) :
              upload_dir[i].content = upload_dir[j].content => i = j

\* handle_file_upload run alone, start to end, on a store
\* [files, dir, index].
RECURSIVE upload_alone_loop(_, _, _, _)
upload_alone_loop(files, current_files, directory, new_files) ==
    IF files = <<>>
    THEN [dir |-> directory, new |-> new_files]
    ELSE LET file_data == Head(files)
             file_hash == _content_hash(file_data.content)
         IN  IF HasKey(current_files, file_hash)
             THEN upload_alone_loop(Tail(files), current_files, directory, new_files)
             ELSE upload_alone_loop(Tail(files), current_files,
                      save_file_to_disk(directory, file_data.filename, file_data.content),
                      Append(new_files, FileRecord(file_data.filename, file_hash)))

upload_alone(files, store) ==
    LET done == upload_alone_loop(files, store.files, store.dir, <<>>)
        merged == add_or_replace_file_with_content_batch(done.new, store.files)
    IN  IF done.new = <<>>
        THEN [files |-> store.files, dir |-> done.dir, index |-> store.index]
        ELSE [files |-> merged, dir |-> done.dir, index |-> File(serializable(merged))]

StoreOfInitConc == [files |-> <<>>, dir |-> <<>>, index |-> File(<<>>)]

BothUploadsDone == \A t \in Threads : pc[t] = "upload_done"

\* C8: when two handle_file_upload handlers ran concurrently, the final
\* record list and index file are those of running the two uploads one
\* after the other in some order.
C8_UploadsSerialized ==
    BothUploadsDone =>
        \E t1, t2 \in Threads :
            /\ t1 # t2
            /\ LET final == upload_alone(h_input[t2],
                                upload_alone(h_input[t1], StoreOfInitConc))
               IN  /\ uploaded_files = final.files
                   /\ state_file = final.index

\* ------------------------------------------------ extract_text, one call
\* One call of extract_text on any of Sources, nothing else running.
InitExtract ==
    /\ PureIdle
    /\ ProgramStopped
    /\ x_src \in Sources
    /\ x_pc = "ready"
    /\ x_total = 0
    /\ x_out = NoOutcome
    /\ HistoryIdle
    /\ LaterIdle

\* extract_text up to its return, or up to the call of _extract_large_file.
ExtractText ==
    /\ x_pc = "ready"
    /\ LET r == extract_text(x_src) IN
       IF r.large
       THEN /\ x_pc' = "large"
            /\ UNCHANGED x_out
       ELSE /\ x_pc' = "done"
            /\ x_out' = r
    /\ UNCHANGED <<x_src, x_total, pure_vars, program_vars, history_vars, later_vars>>

\* One pass of the loop of _extract_large_file; on leaving it, the return of
\* "".join(parts) through extract_text.
LargeRead ==
    /\ x_pc = "large"
    /\ LET step == _extract_large_file(x_src.size, x_total) IN
       /\ x_total' = step.total
       /\ IF step.stop
          THEN /\ x_pc' = "done"
               /\ x_out' = Returned(Text(IF step.truncated THEN "truncated" ELSE "text",
                                         "plain", step.total, <<>>))
          ELSE UNCHANGED <<x_pc, x_out>>
    /\ UNCHANGED <<x_src, pure_vars, program_vars, history_vars, later_vars>>

NextExtract ==
    \/ ExtractText
    \/ LargeRead

SpecExtract == InitExtract /\ [][NextExtract]_vars

\* ------------------------------------------- claims on text extraction
\* The source reaches the dispatch on the suffix.
Opened(src) == src.form = "object" \/ (src.form = "path" /\ src.exists)

LargeInput(src) ==
    /\ Opened(src)
    /\ src.seekable
    /\ src.size > MAX_BYTES
    /\ src.suffix \notin ArchiveSuffixes

DecoderFails(src) ==
    /\ Opened(src)
    /\ ~LargeInput(src)
    /\ src.suffix \in DecoderSuffixes
    /\ src.corrupt

\* C11: extract_text never raises to its caller; whatever the source, it
\* returns a string, the not-found marker for a missing path and the failure
\* marker with the exception text when a decoder fails.
C11_ExtractTextNeverRaises ==
    x_pc = "done" =>
        /\ ~x_out.raised
        /\ x_out.text.kind \in {"text", "truncated", "not_found", "invalid_object",
                                "read_failed", "unpack_failed", "empty_archive", "archive"}
        /\ (x_src.form = "path" /\ ~x_src.exists) => x_out.text.kind = "not_found"
        /\ DecoderFails(x_src) =>
              /\ x_out.text.kind = "read_failed"
              /\ x_out.text.detail = "parse error"

C11_Witness ==
    /\ x_pc = "done"
    /\ DecoderFails(x_src)
    /\ ~x_out.raised
    /\ x_out.text.kind = "read_failed"

\* C12: a seekable non-archive input above MAX_BYTES is read in chunks of
\* chunk_size, reading stops after the first chunk that takes the total above
\* MAX_BYTES (at most MAX_BYTES + chunk_size bytes are consumed), and the
\* output ends with the truncation marker.
C12_LargeInputTruncated ==
    LargeInput(x_src) =>
        /\ x_pc # "ready" => x_total <= MAX_BYTES + chunk_size
        /\ x_pc = "large" => (x_total <= MAX_BYTES /\ x_total % chunk_size = 0)
        /\ x_pc = "done" =>
              /\ x_total > MAX_BYTES
              /\ x_out.text.kind = "truncated"
              /\ x_out.text.bytes = x_total

C12_Witness ==
    /\ LargeInput(x_src)
    /\ x_src.size = 2 * MAX_BYTES
    /\ x_pc = "done"
    /\ x_total = MAX_BYTES + chunk_size
    /\ x_out.text.kind = "truncated"

\* A zip container of two files, position big above the per-member limit,
\* position normal at or below it and neither unreadable nor unparsable.
OneBigOneNormal(src, big, normal) ==
    /\ Opened(src)
    /\ src.suffix = ".zip"
    /\ src.archive.openable
    /\ Len(src.archive.members) = 2
    /\ {big, normal} = {1, 2}
    /\ src.archive.members[big].kind = "file"
    /\ src.archive.members[big].size > MEMBER_MAX_BYTES
    /\ src.archive.members[normal].kind = "file"
    /\ src.archive.members[normal].size <= MEMBER_MAX_BYTES
    /\ src.archive.members[normal].fault = "none"

\* C13: a zip with one member above the per-member limit and one normal
\* member gives exactly two labelled results in member order: the skip
\* marker for the big member, whose bytes are never read, and the extracted
\* text for the normal one.
C13_ZipSkipsBigMember ==
    \A big, normal \in {1, 2} :
        (x_pc = "done" /\ OneBigOneNormal(x_src, big, normal)) =>
            LET ms == x_src.archive.members
                items == x_out.text.items
            IN  /\ x_out.text.kind = "archive"
                /\ Len(items) = 2
                /\ items[big].label = ms[big].name
                /\ items[big].mark = "skipped"
                /\ big \notin x_out.read
                /\ big \notin x_out.passed
                /\ items[normal].label = ms[normal].name
                /\ items[normal].mark = "extracted"
                /\ items[normal].text.kind = "text"
                /\ items[normal].text.bytes = ms[normal].size
                /\ normal \in x_out.read

C13_Witness ==
    /\ x_pc = "done"
    /\ OneBigOneNormal(x_src, 1, 2)
    /\ Len(x_out.text.items) = 2
    /\ x_out.text.items[1].mark = "skipped"
    /\ x_out.text.items[2].mark = "extracted"

\* An opened archive of any kind.
Expanded(src) ==
    /\ Opened(src)
    /\ src.suffix \in ArchiveSuffixes
    /\ src.archive.openable

\* C14: for every archive kind, a member above the per-member limit is never
\* read and never passed to extract_text, and the listing holds the
\* too-large skip marker in its place.
C14_BigMemberNeverRead ==
    (x_pc = "done" /\ Expanded(x_src)) =>
        \A i \in 1..Len(x_src.archive.members) :
            LET m == x_src.archive.members[i] IN
            (m.kind = "file" /\ m.size > MEMBER_MAX_BYTES) =>
                /\ i \notin x_out.read
                /\ i \notin x_out.passed
                /\ x_out.text.kind = "archive" =>
                      \E k \in 1..Len(x_out.text.items) :
                          /\ x_out.text.items[k].label = m.name
                          /\ x_out.text.items[k].mark = "skipped"

\* The members process_archive reports on: files outside __MACOSX/ for zip,
\* everything but directories for the other kinds.
Reported(src) ==
    SelectSeq(src.archive.members,
              LAMBDA m : IF src.suffix = ".zip" THEN m.kind = "file" ELSE m.kind # "dir")

\* C15: for every archive kind, a failure while reading or extracting one
\* member shows in that member's own labelled result and the other members'
\* results are still returned; the single top-level failure marker appears
\* only when the container itself cannot be opened.
C15_MemberFailureIsolated ==
    (x_pc = "done" /\ Opened(x_src) /\ x_src.suffix \in ArchiveSuffixes) =>
        /\ x_out.text.kind = "unpack_failed" => ~x_src.archive.openable
        /\ x_src.archive.openable =>
              LET ms == Reported(x_src)
                  items == x_out.text.items
              IN  /\ Len(items) = Len(ms)
                  /\ \A k \in 1..Len(ms) :
                        /\ items[k].label = ms[k].name
                        /\ ms[k].fault \in {"open", "read"} =>
                              items[k].mark \in {"failed", "skipped"}

\* ------------------------------------------ the history store, one session
UserTexts == {<<"h", "/", "i">>}

\* Arguments of direct calls of save_history: messages, file_context, name
\* (<<>> for none).
SaveArgs(msgs, file_context, name) ==
    [msgs |-> msgs, file_context |-> file_context, name |-> name]

SaveCalls ==
    {SaveArgs(<<>>, "", <<>>),
     SaveArgs(<<Message(User, <<"h", "/", "i">>)>>, "ctx", <<>>),
     SaveArgs(<<Message(Assistant, <<"h", "i">>)>>, "", <<>>),
     SaveArgs(<<Message(Assistant, <<"a">>), Message(User, <<"a", "/">>)>>, "ctx",
              <<"h", "i">>)}

\* Arguments of rename_history, list_histories and delete_history.
Targets ==
    {<<"H", "i", "/">>, <<"/">>,
     Chars(SANITIZE_LENGTH, "a"), Chars(SANITIZE_LENGTH + 1, "a")}

\* Directories the calls above can leave behind: up to MaxFiles histories
\* under generated names and under names rename_history gave them.
MaxFiles == 2

StoreNames ==
    {generate_history_name(<<Message(User, <<"h", "/", "i">>)>>, 1, r) : r \in RandomStrings}
    \cup {_sanitize(t) : t \in Targets}

StoredFile(name) ==
    DirFile(JsonFile(name),
            json_dump(HistoryData(1, "cfg", <<Message(User, <<"h", "/", "i">>)>>, "")),
            0)

StoredDirs ==
    {[i \in 1..Len(names) |-> StoredFile(names[i])] :
        names \in {l \in SeqsUpTo(StoreNames, MaxFiles) :
                      \A i, j \in 1..Len(l) : i # j => l[i] # l[j]}}

StoredNames == {stem(glob(history_dir)[i].file) : i \in 1..Len(glob(history_dir))}

KnownNames == StoredNames \cup {<<"h", "i">>}

Queries == {<<>>, <<"h">>, <<"1">>}

Limits == {1, DEFAULT_LIMIT}

\* A name save_history returned, and whether save_history generated it.
ReturnedName(name, generated) == [name |-> name, generated |-> generated]

\* What the last call was given and what it gave back.
Observed(op, name, msgs, file_context, old, new, ok, query, limit, listing, before) ==
    [op |-> op, name |-> name, msgs |-> msgs, file_context |-> file_context,
     old |-> old, new |-> new, ok |-> ok, query |-> query, limit |-> limit,
     listing |-> listing, before |-> before]

ObservedSave(op, name, msgs, file_context) ==
    Observed(op, name, msgs, file_context, <<>>, <<>>, TRUE, <<>>, 0, Listing(FALSE, <<>>), <<>>)

InitHistory ==
    /\ PureIdle
    /\ ProgramStopped
    /\ ExtractIdle
    /\ HistoryIdle
    /\ LaterIdle

\* The clock passes a second.
Tick ==
    /\ now < MaxSaves
    /\ now' = now + 1
    /\ UNCHANGED <<history_dir, messages, conversation, returned_names, last_call,
                   pure_vars, program_vars, extract_vars, later_vars>>

\* on_send with a reply from the model: both messages are appended and the
\* conversation is saved without a name.  No file is uploaded, file_ctx is "".
OnSend ==
    /\ Len(returned_names) < MaxSaves
    /\ \E user_text \in UserTexts, random_str \in RandomStrings :
        LET msgs == messages \o <<Message(User, user_text), Message(Assistant, <<"h", "i">>)>>
            saved == save_history(history_dir, msgs, "", "cfg", <<>>, now, random_str,
                                  conversation)
        IN  /\ messages' = msgs
            /\ history_dir' = saved.dir
            /\ returned_names' = Append(returned_names, ReturnedName(saved.ret, TRUE))
            /\ last_call' = ObservedSave("on_send", saved.ret, msgs, "")
    /\ UNCHANGED <<conversation, now, pure_vars, program_vars, extract_vars, later_vars>>

\* on_send when ollama.chat raises: the user message stays, nothing is saved.
OnSendFails ==
    /\ Len(messages) < MaxSaves
    /\ \E user_text \in UserTexts :
        messages' = Append(messages, Message(User, user_text))
    /\ last_call' = ObservedSave("on_send_failed", <<>>, <<>>, "")
    /\ UNCHANGED <<history_dir, conversation, now, returned_names,
                   pure_vars, program_vars, extract_vars, later_vars>>

\* new_conversation_click, as far as the history goes: new_conversation saves
\* the current messages when there are any, then the messages are reset.
NewConversation ==
    /\ conversation < MaxSaves
    /\ conversation' = conversation + 1
    /\ messages' = <<>>
    /\ IF messages # <<>>
       THEN /\ Len(returned_names) < MaxSaves
            /\ \E random_str \in RandomStrings :
                LET saved == save_history(history_dir, messages, "", "cfg", <<>>, now,
                                          random_str, conversation)
                IN  /\ history_dir' = saved.dir
                    /\ returned_names' = Append(returned_names, ReturnedName(saved.ret, TRUE))
                    /\ last_call' = ObservedSave("new_conversation", saved.ret, messages, "")
       ELSE /\ UNCHANGED <<history_dir, returned_names>>
            /\ last_call' = ObservedSave("new_conversation", <<>>, <<>>, "")
    /\ UNCHANGED <<now, pure_vars, program_vars, extract_vars, later_vars>>

\* A direct call save_history(messages, file_context, model_config, name).
SaveHistory ==
    /\ Len(returned_names) < MaxSaves
    /\ \E call \in SaveCalls, random_str \in RandomStrings :
        LET saved == save_history(history_dir, call.msgs, call.file_context, "cfg", call.name,
                                  now, random_str, 0)
        IN  /\ history_dir' = saved.dir
            /\ returned_names' =
                  IF call.msgs # <<>>
                  THEN Append(returned_names, ReturnedName(saved.ret, call.name = <<>>))
                  ELSE returned_names
            /\ last_call' = ObservedSave("save_history", saved.ret, call.msgs,
                                         call.file_context)
    /\ UNCHANGED <<messages, conversation, now, pure_vars, program_vars, extract_vars, later_vars>>

RenameHistory ==
    /\ \E old \in KnownNames, new \in Targets :
        LET renamed == rename_history(history_dir, old, new)
        IN  /\ history_dir' = renamed.dir
            /\ last_call' = Observed("rename_history", <<>>, <<>>, "", old, new, renamed.ret,
                                     <<>>, 0, Listing(FALSE, <<>>), history_dir)
    /\ UNCHANGED <<messages, conversation, now, returned_names,
                   pure_vars, program_vars, extract_vars, later_vars>>

DeleteHistory ==
    /\ \E name \in KnownNames :
        LET deleted == delete_history(history_dir, name)
        IN  /\ history_dir' = deleted.dir
            /\ last_call' = Observed("delete_history", <<>>, <<>>, "", name, <<>>, deleted.ret,
                                     <<>>, 0, Listing(FALSE, <<>>), <<>>)
    /\ UNCHANGED <<messages, conversation, now, returned_names,
                   pure_vars, program_vars, extract_vars, later_vars>>

ListHistories ==
    /\ \E query \in Queries, limit \in Limits :
        last_call' = Observed("list_histories", <<>>, <<>>, "", <<>>, <<>>, TRUE, query, limit,
                              list_histories(history_dir, query, limit), <<>>)
    /\ UNCHANGED <<history_dir, messages, conversation, now, returned_names,
                   pure_vars, program_vars, extract_vars, later_vars>>

\* The session and direct calls of save_history, from an empty HISTORY_DIR.
NextHistory ==
    \/ Tick
    \/ OnSend
    \/ OnSendFails
    \/ NewConversation
    \/ SaveHistory

SpecHistory == InitHistory /\ [][NextHistory]_vars

\* Calls of rename_history, delete_history and list_histories on any
\* directory of StoredDirs.
InitStore ==
    /\ PureIdle
    /\ ProgramStopped
    /\ ExtractIdle
    /\ history_dir \in StoredDirs
    /\ messages = <<>>
    /\ conversation = 1
    /\ now = 1
    /\ returned_names = <<>>
    /\ last_call = [op |-> "none"]
    /\ LaterIdle

NextStore ==
    \/ RenameHistory
    \/ DeleteHistory
    \/ ListHistories

SpecStore == InitStore /\ [][NextStore]_vars

\* ---------------------------------------------- claims on the history store
\* The last call wrote a history: save_history with a non-empty message list,
\* directly or from on_send or new_conversation.
SavedBy(ops) == last_call.op \in ops /\ last_call.msgs # <<>>

\* C16: for every non-empty message list, save_history returns a name under
\* which load_history gives back the saved messages, in the same order, and
\* the saved file_context.
C16_HistoryRoundTrip ==
    SavedBy({"save_history", "on_send", "new_conversation"}) =>
        LET loaded == load_history(history_dir, last_call.name)
        IN  /\ loaded.messages = last_call.msgs
            /\ loaded.file_context = last_call.file_context

C16_Witness ==
    /\ SavedBy({"save_history"})
    /\ returned_names[Len(returned_names)].generated
    /\ last_call.file_context = "ctx"
    /\ Len(history_dir) = 2
    /\ load_history(history_dir, last_call.name).messages = last_call.msgs

\* C17: the names save_history generates are globally unique: no call without
\* an explicit name returns a name an earlier such call returned.
C17_GeneratedNamesUnique ==
    \A i, j \in 1..Len(returned_names) :
        (i < j /\ returned_names[i].generated /\ returned_names[j].generated) =>
            returned_names[i].name # returned_names[j].name

\* The files of HISTORY_DIR the handlers of the conversation under way wrote.
OfConversation == {i \in 1..Len(history_dir) : history_dir[i].written_by = conversation}

\* C18: one history file per conversation: after a successful send the
\* directory holds exactly one record of the conversation under way, and it
\* holds the conversation's messages.
C18_OneFilePerConversation ==
    last_call.op = "on_send" =>
        /\ Cardinality(OfConversation) = 1
        /\ \A i \in OfConversation : json_loads(history_dir[i].text).messages = messages

\* C19: rename_history(old, new) returns true only when old exists and no
\* record has the sanitized target name; then the record is under the
\* sanitized name with its content unchanged, old is gone and no other record
\* is touched; when it returns false the directory is as it was.
C19_RenameHistory ==
    last_call.op = "rename_history" =>
        LET before == last_call.before
            target == _sanitize(last_call.new)
        IN  IF last_call.ok
            THEN /\ Exists(before, JsonFile(last_call.old))
                 /\ ~Exists(before, JsonFile(target))
                 /\ Exists(history_dir, JsonFile(target))
                 /\ load_history(history_dir, target) = load_history(before, last_call.old)
                 /\ ~Exists(history_dir, JsonFile(last_call.old))
                 /\ Len(history_dir) = Len(before)
                 /\ \A i \in 1..Len(before) :
                       before[i].file # JsonFile(last_call.old) => history_dir[i] = before[i]
            ELSE history_dir = before

C19_Witness ==
    /\ last_call.op = "rename_history"
    /\ last_call.ok
    /\ last_call.new = Chars(SANITIZE_LENGTH + 1, "a")
    /\ Len(history_dir) = 2
    /\ Exists(history_dir, JsonFile(Chars(SANITIZE_LENGTH, "a")))

\* name contains query, as a substring.
Contains(name, query) ==
    \E i \in 1..(Len(name) + 1 - Len(query)) : SubSeq(name, i, i + Len(query) - 1) = query

\* Position of a history among the histories, most recently modified first.
Recency(name) ==
    CHOOSE i \in 1..Len(history_dir) : stem(Reverse(history_dir)[i].file) = name

\* C20: list_histories(query, limit) lists from most to least recently
\* modified, and when at most limit stored histories have a name containing
\* the query, every one of them is listed.
C20_ListHistories ==
    (last_call.op = "list_histories" /\ ~last_call.listing.raised) =>
        LET rows == last_call.listing.rows
            matching == {n \in StoredNames : Contains(n, last_call.query)}
        IN  /\ \A i, j \in 1..Len(rows) :
                  i < j => Recency(rows[i].name) < Recency(rows[j].name)
            /\ Cardinality(matching) <= last_call.limit =>
                  \A n \in matching : \E i \in 1..Len(rows) : rows[i].name = n

\* ------------------------------------------ the configuration at start-up
\* The module ui_desktop is about to be loaded, model_config.json holding
\* any of ConfigFiles.
InitConfig ==
    /\ PureIdle
    /\ ProgramStopped
    /\ ExtractIdle
    /\ HistoryIdle
    /\ HashIdle
    /\ ImportIdle
    /\ LaunchIdle
    /\ config_file \in ConfigFiles
    /\ model_config = DEFAULT_CONFIG
    /\ config_pc = "ready"

\* session_state = {..., "model_config": load_model_config(), ...}
LoadModelConfig ==
    /\ config_pc = "ready"
    /\ model_config' = load_model_config(config_file)
    /\ config_pc' = "done"
    /\ UNCHANGED <<config_file, pure_vars, program_vars, extract_vars, history_vars,
                   hash_vars, import_vars, launch>>

NextConfig == LoadModelConfig

SpecConfig == InitConfig /\ [][NextConfig]_vars

\* ------------------------------------------- claims on the configuration
WithinBounds(f, value) ==
    /\ value.kind = "number"
    /\ f \in DOMAIN FieldBounds =>
          (value.v >= FieldBounds[f].ge /\ value.v <= FieldBounds[f].le)

\* What the file gives for field f.
Given(f) == IF config_file.form = "object" THEN config_file.fields[f] ELSE Missing

\* C21: whatever model_config.json holds, the configuration loaded at
\* start-up has every parameter within its documented bounds, a missing or
\* invalid value replaced by its default (loading itself always returns).
C21_ConfigWithinBounds ==
    config_pc = "done" =>
        \A f \in ConfigFields :
            /\ WithinBounds(f, model_config[f])
            /\ ~WithinBounds(f, Given(f)) => model_config[f] = DEFAULT_CONFIG[f]

\* ------------------------------------------------------- hashing of files
\* A process that has hashed nothing yet; the files are written, replaced
\* and removed while it runs.
InitHash ==
    /\ PureIdle
    /\ ProgramStopped
    /\ ExtractIdle
    /\ HistoryIdle
    /\ ConfigIdle
    /\ ImportIdle
    /\ LaunchIdle
    /\ hash_files \in [Paths -> {NoBytes} \cup Contents]
    /\ hash_cache = <<>>
    /\ hash_call = [op |-> "none"]

HashUnchanged ==
    UNCHANGED <<pure_vars, program_vars, extract_vars, history_vars, config_vars, import_vars,
                launch>>

\* The file at path is written with other bytes.
WriteBytes(path, bytes) ==
    /\ hash_files[path] # bytes
    /\ hash_files' = [hash_files EXCEPT ![path] = bytes]
    /\ UNCHANGED <<hash_cache, hash_call>>
    /\ HashUnchanged

\* The file at path is removed.
RemoveBytes(path) ==
    /\ hash_files[path] # NoBytes
    /\ hash_files' = [hash_files EXCEPT ![path] = NoBytes]
    /\ UNCHANGED <<hash_cache, hash_call>>
    /\ HashUnchanged

HashCalled(op, path, result) ==
    [op |-> op, path |-> path, bytes |-> hash_files[path],
     raised |-> result.raised, ret |-> result.ret]

\* _file_hash(path)
FileHash(path) ==
    /\ hash_cache' = _file_hash(hash_files, hash_cache, path).cache
    /\ hash_call' = HashCalled("_file_hash", path, _file_hash(hash_files, hash_cache, path))
    /\ UNCHANGED hash_files
    /\ HashUnchanged

\* FileEntry(path): self.hash = _file_hash(str(path))
NewFileEntry(path) ==
    /\ hash_cache' = _file_hash(hash_files, hash_cache, path).cache
    /\ hash_call' = HashCalled("FileEntry", path, _file_hash(hash_files, hash_cache, path))
    /\ UNCHANGED hash_files
    /\ HashUnchanged

NextHash ==
    \/ \E path \in Paths, bytes \in Contents : WriteBytes(path, bytes)
    \/ \E path \in Paths : RemoveBytes(path)
    \/ \E path \in Paths : FileHash(path)
    \/ \E path \in Paths : NewFileEntry(path)

SpecHash == InitHash /\ [][NextHash]_vars

\* C22: a call of _file_hash(path), and the hash of a FileEntry built for
\* path, that returns gives the digest of the bytes the file at path holds at
\* the time of the call; the memo never serves the digest of earlier content.
C22_FileHashIsCurrent ==
    (hash_call.op # "none" /\ ~hash_call.raised) =>
        hash_call.ret = sha256_hexdigest(hash_call.bytes)

\* ------------------------------------------------------ import of a file
\* Text files of up to MaxLines lines, with and without a line end after
\* the last line.
MaxLines == 2

ImportLines ==
    {<<"u", "s", "e", "r", ":", " ", "h", "/", "i">>,
     <<" ", "U", "s", "e", "r", " ", ":", "h", ":", "i", " ">>,
     <<"a", "s", "s", "i", "s", "t", "a", "n", "t", ":", " ", "h", "i">>,
     <<"h", "i">>,
     <<>>,
     <<":">>}

RECURSIVE Join(_)
Join(lines) ==
    IF lines = <<>> THEN <<>>
    ELSE IF Len(lines) = 1 THEN Head(lines)
    ELSE Head(lines) \o <<Newline>> \o Join(Tail(lines))

TextFiles ==
    {ImportFile(suffix, Join(lines) \o end, FALSE, EmptyHistory, lines) :
        suffix \in {".txt", ".md", ".TXT"},
        lines \in SeqsUpTo(ImportLines, MaxLines),
        end \in {<<>>, <<Newline>>}}

\* .json files: an exported history, one without messages, one that
\* json.loads rejects; and a file of another kind.
OtherFiles ==
    {ImportFile(".json", <<>>, TRUE,
                HistoryData(1, "cfg", <<Message(User, <<"h", "/", "i">>)>>, ""), <<>>),
     ImportFile(".json", <<>>, TRUE, EmptyHistory, <<>>),
     ImportFile(".json", <<>>, FALSE, EmptyHistory, <<>>),
     ImportFile(".pdf", <<>>, FALSE, EmptyHistory, <<>>)}

ImportFiles == TextFiles \cup OtherFiles

\* HISTORY_DIR is empty or holds one history, also one under the name the
\* import generates.
InitImport ==
    /\ PureIdle
    /\ ProgramStopped
    /\ ExtractIdle
    /\ history_dir \in {dir \in StoredDirs : Len(dir) <= 1}
    /\ messages = <<>>
    /\ conversation = 1
    /\ now = 1
    /\ returned_names = <<>>
    /\ last_call = [op |-> "none"]
    /\ ConfigIdle
    /\ HashIdle
    /\ LaunchIdle
    /\ import_file \in ImportFiles
    /\ import_call = [op |-> "none"]

\* import_history(import_file)
ImportHistory ==
    /\ import_call.op = "none"
    /\ \E random_str \in RandomStrings :
        LET result == import_history(history_dir, import_file, now, random_str)
        IN  /\ history_dir' = result.dir
            /\ import_call' = [op |-> "import_history", raised |-> result.raised,
                               ret |-> result.ret, before |-> history_dir]
    /\ UNCHANGED <<import_file, messages, conversation, now, returned_names, last_call,
                   pure_vars, program_vars, extract_vars, config_vars, hash_vars, launch>>

NextImport == ImportHistory

SpecImport == InitImport /\ [][NextImport]_vars

\* ---------------------------------------------------- claims on the import
TextImported ==
    /\ import_call.op = "import_history"
    /\ import_file.suffix \in {".txt", ".md", ".TXT"}

\* The lines of the file that hold a colon, in file order.
ColonLines == SelectSeq(import_file.lines, LAMBDA l : \E i \in 1..Len(l) : l[i] = ":")

\* t is s without the whitespace at its ends.
TrimOf(t, s) ==
    /\ t # <<>> => (t[1] \notin Whitespace /\ t[Len(t)] \notin Whitespace)
    /\ \E a \in 0..Len(s) :
          /\ a + Len(t) <= Len(s)
          /\ \A k \in 1..a : s[k] \in Whitespace
          /\ \A k \in 1..Len(t) : s[a + k] = t[k]
          /\ \A k \in (a + Len(t) + 1)..Len(s) : s[k] \in Whitespace

\* m is the message of line: role the trimmed lower-cased text before the
\* first colon, content the trimmed text after it.
MessageOf(m, line) ==
    \E i \in 1..Len(line) :
        /\ line[i] = ":"
        /\ \A j \in 1..(i - 1) : line[j] # ":"
        /\ \E r \in {SubSeq(line, a, b) : a \in 1..i, b \in 0..(i - 1)} :
              /\ TrimOf(r, SubSeq(line, 1, i - 1))
              /\ Len(m.role) = Len(r)
              /\ \A k \in 1..Len(r) : m.role[k] = Lower(r[k])
        /\ TrimOf(m.content, SubSeq(line, i + 1, Len(line)))

\* The history named name holds one message per colon line.
HoldsColonLines(name) ==
    /\ Exists(history_dir, JsonFile(name))
    /\ LET msgs == load_history(history_dir, name).messages
       IN  /\ Len(msgs) = Len(ColonLines)
           /\ \A k \in 1..Len(msgs) : MessageOf(msgs[k], ColonLines[k])

\* C23 as stated: every import of a .txt or .md file creates a history
\* whose messages are, in file order, one per line that holds a colon.
C23_ImportAsStated ==
    TextImported => (~import_call.raised /\ HoldsColonLines(import_call.ret))

\* C23: importing a .txt or .md file of which at least one line holds a
\* colon creates a history whose messages are, in file order, exactly one
\* message per line that holds a colon, with role the trimmed lower-cased
\* text before the first colon and content the trimmed text after it;
\* a file without such a line creates no history, the call returns "".
C23_ImportTextFile ==
    TextImported =>
        /\ ~import_call.raised
        /\ IF ColonLines # <<>>
           THEN HoldsColonLines(import_call.ret)
           ELSE import_call.ret = <<>> /\ history_dir = import_call.before

\* A file of two colon lines, one with blanks, capitals and a second colon,
\* was imported.
C23_Witness ==
    /\ TextImported
    /\ Len(ColonLines) = 2
    /\ \E k \in 1..2 : Len(SelectSeq(ColonLines[k], LAMBDA c : c = ":")) = 2
    /\ load_history(history_dir, import_call.ret).messages[1].role = User

\* ------------------------------------------- a session that holds messages
\* The messages of a conversation: none, a question with its reply, a
\* question whose reply failed.
SessionMessages ==
    {<<>>,
     <<Message(User, <<"h", "/", "i">>), Message(Assistant, <<"h", "i">>)>>,
     <<Message(User, <<"h", "/", "i">>)>>}

\* Upload directories of up to MaxBatch files, as uploads leave them.
SessionStores ==
    {dir \in SeqsUpTo(AllUploads, MaxBatch) :
        \A i, j \in 1..Len(dir) : dir[i].filename = dir[j].filename => i = j}

\* The page is up, files were uploaded and messages exchanged; the state
\* file holds the records of the session.
InitSession ==
    /\ PureIdle
    /\ phase = "serving"
    /\ upload_dir \in SessionStores
    /\ uploaded_files = load_uploaded_files(upload_dir)
    /\ state_file = File(serializable(uploaded_files))
    /\ temp_file = NoFile
    /\ first_run = FALSE
    /\ before_stop = <<>>
    /\ NoLocals
    /\ ExtractIdle
    /\ history_dir \in {dir \in StoredDirs : Len(dir) <= 1}
    /\ messages \in SessionMessages
    /\ conversation = 1
    /\ now = 1
    /\ returned_names = <<>>
    /\ last_call = [op |-> "none"]
    /\ ConfigIdle
    /\ HashIdle
    /\ ImportIdle
    /\ launch \in Launches

NextSession ==
    \/ NewConversationClick(1)
    \/ SaveWrite(1)
    \/ SaveExists(1)
    \/ SaveUnlink(1)
    \/ SaveRename(1)
    \/ ClickDone(1)

SpecSession == InitSession /\ [][NextSession]_vars

\* After the step, HISTORY_DIR holds a history the conversation wrote with
\* the messages the session held before it.
SavedInStep ==
    \E i \in 1..Len(history_dir') :
        /\ history_dir'[i].written_by = conversation
        /\ json_loads(history_dir'[i].text).messages = messages

\* C24: whenever the session holds at least one message, the step of
\* new_conversation_click that resets the messages and the uploaded files has
\* first saved those messages as a history record, whether or not files are
\* uploaded.
C24_NewConversationSaves ==
    [][(messages # <<>> /\ messages' = <<>>) =>
          (SavedInStep /\ uploaded_files' = <<>>)]_vars

\* ------------------------------------------- records and the files behind
\* One UI thread, no failure, and nobody but the program touches the upload
\* directory.
NextIntact ==
    \/ Start
    \/ Stop
    \/ Main(1)
    \/ MainEnd(1)
    \/ HandleFileUpload(1)
    \/ UploadLoop(1)
    \/ UploadMerge(1)
    \/ UploadAgain(1)
    \/ UploadDone(1)
    \/ NewConversationClick(1)
    \/ DeleteFileWithConfirm(1)
    \/ ClickDone(1)
    \/ SaveWrite(1)
    \/ SaveExists(1)
    \/ SaveUnlink(1)
    \/ SaveRename(1)

SpecIntact == Init /\ [][NextIntact]_vars

\* The bytes stored under filename.
BytesAt(directory, filename) ==
    directory[CHOOSE i \in 1..Len(directory) : directory[i].filename = filename].content

\* The record has a file behind it that holds the bytes of its key.
Backed(record) ==
    /\ OnDisk(upload_dir, record.filename)
    /\ record.key = _content_hash(BytesAt(upload_dir, record.filename))

\* C25: when handle_file_upload or a file deletion has completed, every
\* record of the session's upload list has a file at its path, and its key
\* is the hash of the bytes stored there now.
C25_RecordsMatchDisk ==
    pc[1] \in {"upload_done", "click_done"} =>
        \A i \in 1..Len(uploaded_files) : Backed(uploaded_files[i])

====
